---- MODULE Spec2Model ----
(***************************************************************************)
(* scripts/collect_repo_metrics.py as a state machine: main() reads the    *)
(* environment and the repository list, collect_metrics() polls the        *)
(* hosting API one repository at a time, generate_report() writes the      *)
(* summary.  Text is a sequence of character codes, so that startswith,    *)
(* split and the lexical >= of generate_report are computed, not assumed.  *)
(* Instants are whole days on a small calendar.                            *)
(***************************************************************************)
EXTENDS Integers, Sequences, FiniteSets, TLC

VARIABLES
    pc,            \* position in main() / collect_metrics()
    token,         \* os.environ.get('GITHUB_TOKEN')
    config_doc,    \* what config/repos.yaml holds
    hosted,        \* the hosting service: repository name -> commit history
    g,             \* TRUE once Github(token, per_page=100) is constructed
    org_name,      \* main's org_name
    repo_names,    \* main's repo_names
    metrics,       \* collect_metrics' list under construction
    returned,      \* main's metrics: the list collect_metrics returned
    i,             \* how many names the for loop of collect_metrics has taken
    loc,           \* collect_metrics' per-repository locals
    report,        \* the summary generate_report wrote
    events,        \* main's steps so far, in order
    api,           \* number of get_organization / get_repo calls issued
    sleeps,        \* sleeps[k]: time.sleep calls since the k-th record was appended
    obs            \* what the current repository's fetches did

vars == <<pc, token, config_doc, hosted, g, org_name, repo_names, metrics,
          returned, i, loc, report, events, api, sleeps, obs>>

\* ------------------------------------------------------------------ bounds
MaxRepos == 2
MaxCommits == 2

\* ------------------------------------------------------- program constants
WeekDays == 7
MonthDays == 30
SleepSeconds == 1

\* --------------------------------------------------------------- text
Min(a, b) == IF a < b THEN a ELSE b

STR_Error == <<69, 114, 114, 111, 114>>                             \* "Error"
STR_ErrorColon == <<69, 114, 114, 111, 114, 58, 32>>                \* "Error: "
STR_OrgError == <<79, 114, 103, 32, 101, 114, 114, 111, 114, 58, 32>> \* "Org error: "
STR_NoCommits == <<78, 111, 32, 99, 111, 109, 109, 105, 116, 115>>  \* "No commits"
STR_NoReleases == <<78, 111, 32, 114, 101, 108, 101, 97, 115, 101, 115>> \* "No releases"
STR_By == <<32, 98, 121, 32>>                                       \* " by "
STR_Midnight == <<32, 48, 48, 58, 48, 48, 58, 48, 48>>              \* " 00:00:00"
STR_Slash == <<47>>                                                 \* "/"
STR_acme == <<97, 99, 109, 101>>                                    \* "acme"
STR_acmeRepo == <<97, 99, 109, 101, 47, 99, 114>>                   \* "acme/cr"
STR_defaultOrgName == <<100, 101, 102, 97, 117, 108, 116, 79, 114, 103, 78, 97, 109, 101>> \* "defaultOrgName"
STR_author == <<97, 108>>                                           \* "al"
STR_404 == <<52, 48, 52>>                                           \* "404"
STR_503 == <<53, 48, 51>>                                           \* "503"

\* str.startswith
StartsWith(s, p) == Len(s) >= Len(p) /\ SubSeq(s, 1, Len(p)) = p

\* sep occurs in s at position k
OccursAt(s, sep, k) ==
    /\ k + Len(sep) - 1 <= Len(s)
    /\ \A j \in 1..Len(sep) : s[k + j - 1] = sep[j]

\* `sep in s`
Contains(s, sep) == \E k \in 1..Len(s) : OccursAt(s, sep, k)

\* s.split(sep)[0]
SplitFirst(s, sep) ==
    IF Contains(s, sep)
    THEN LET k == CHOOSE n \in 1..Len(s) :
                      OccursAt(s, sep, n) /\ \A m \in 1..(n - 1) : ~OccursAt(s, sep, m)
         IN SubSeq(s, 1, k - 1)
    ELSE s

\* Python's a < b on str: code points, a proper prefix is smaller
StrLT(a, b) ==
    \E k \in 1..(Min(Len(a), Len(b)) + 1) :
        /\ \A j \in 1..(k - 1) : a[j] = b[j]
        /\ \/ k > Len(a) /\ k <= Len(b)
           \/ k <= Len(a) /\ k <= Len(b) /\ a[k] < b[k]

\* Python's a >= b on str
StrGE(a, b) == ~StrLT(a, b)

\* --------------------------------------------------------------- calendar
Months == << [y |-> 2023, m |-> 11, n |-> 30], [y |-> 2023, m |-> 12, n |-> 31],
             [y |-> 2024, m |-> 1, n |-> 31],  [y |-> 2024, m |-> 2, n |-> 29] >>

RECURSIVE CivilFrom(_, _)
CivilFrom(d, k) ==
    IF d < Months[k].n
    THEN [y |-> Months[k].y, m |-> Months[k].m, d |-> d + 1]
    ELSE CivilFrom(d - Months[k].n, k + 1)

\* day number (0 = 2023-11-01) -> year, month, day of month
Civil(day) == CivilFrom(day, 1)

Digit(n) == 48 + n
Digits2(n) == <<Digit(n \div 10), Digit(n % 10)>>
Digits4(n) == <<Digit(n \div 1000), Digit((n \div 100) % 10),
                Digit((n \div 10) % 10), Digit(n % 10)>>

\* strftime('%Y-%m-%d')
FormatDate(day) ==
    LET c == Civil(day)
    IN Digits4(c.y) \o <<45>> \o Digits2(c.m) \o <<45>> \o Digits2(c.d)

\* strftime('%Y-%m-%d %H:%M:%S') of an instant at midnight
FormatDateTime(day) == FormatDate(day) \o STR_Midnight

\* datetime.datetime.now(): 2024-01-03
Today == Months[1].n + Months[2].n + 2

\* ------------------------------------------------------------ Python values
PyInt(n) == [int |-> n]
PyStr(s) == [str |-> s]
\* isinstance(v, int)
IsInt(v) == DOMAIN v = {"int"}

PENDING == "Pending Implementation"

\* ------------------------------------------------------------------ inputs
NONE == "<None>"
Tokens == {NONE, "", "ghp"}
\* Python truthiness of a str (None is modelled as the empty text where both are falsy)
Truthy(s) == s # <<>>

Pool == <<"alpha", "beta", "gamma", "delta">>
Reverse(s) == [k \in 1..Len(s) |-> s[Len(s) + 1 - k]]
NameLists ==
    {SubSeq(Pool, 1, n) : n \in 1..MaxRepos} \cup {Reverse(SubSeq(Pool, 1, n)) : n \in 1..MaxRepos}

Commit(age, aware) == [day |-> Today - age, aware |-> aware]
Ages == {2, WeekDays, MonthDays, MonthDays + 1}
CommitKinds == {Commit(a, t) : a \in Ages, t \in BOOLEAN}
Histories == UNION {[1..n -> CommitKinds] : n \in 0..MaxCommits}

\* a fixed organization: alpha has one commit dated 3 days ago, beta has none
Catalogue ==
    [n \in {Pool[k] : k \in 1..Len(Pool)} |->
        CASE n = "alpha" -> <<Commit(3, TRUE)>>
          [] n = "beta"  -> <<>>
          [] n = "gamma" -> <<Commit(WeekDays, FALSE), Commit(MonthDays, TRUE)>>
          [] OTHER       -> <<Commit(MonthDays + 1, TRUE)>>]

\* the repository list of config/repos.yaml with the organization it names:
\* a batch over the catalogue, or one repository with any history
Worlds ==
    {[names |-> l, hosted |-> Catalogue] : l \in NameLists}
    \cup {[names |-> <<Pool[1]>>, hosted |-> [Catalogue EXCEPT ![Pool[1]] = h]] : h \in Histories}

ConfigDoc(kind, repos) == [kind |-> kind, repos |-> repos]
BadDocKinds == {"absent", "invalid", "empty", "sequence", "no_repos_key", "repos_null"}
MalformedDocs == {ConfigDoc(k, <<>>) : k \in BadDocKinds} \cup {ConfigDoc("repos", <<>>)}

ErrTexts == {STR_404, STR_503}
OpenIssueCounts == {3}
ContributorCounts == {2}
ReleaseAges == {10}

\* ---------------------------------------------------------- Config Loader
Ok(v) == [raised |-> "", value |-> v]
Raise(x) == [raised |-> x, value |-> <<>>]
PyNone == [none |-> TRUE]
PyList(l) == [list |-> l]
\* `not v` for a list or None
Falsy(v) == v = PyNone \/ v = PyList(<<>>)

load_repo_list(doc) ==
    CASE doc.kind = "absent"       -> Raise("FileNotFoundError")   \* open()
      [] doc.kind = "invalid"      -> Raise("YAMLError")           \* yaml.safe_load
      [] doc.kind = "empty"        -> Raise("AttributeError")      \* None.get
      [] doc.kind = "sequence"     -> Raise("AttributeError")      \* list.get
      [] doc.kind = "no_repos_key" -> Ok(PyList(<<>>))             \* the default []
      [] doc.kind = "repos_null"   -> Ok(PyNone)
      [] OTHER                     -> Ok(PyList(doc.repos))

OrgFiles == {"absent", "empty", "no_org", "org"}
\* GITHUB_ORG: unset, set to '', set to a name
EnvOrgs == {[set |-> FALSE, value |-> <<>>], [set |-> TRUE, value |-> <<>>],
            [set |-> TRUE, value |-> STR_acme]}
get_org_name_from_env(repo_path, org_file, env_org) ==
    IF Contains(repo_path, STR_Slash)
    THEN Ok(SplitFirst(repo_path, STR_Slash))
    ELSE IF org_file = "empty" THEN Raise("AttributeError")        \* None.get
    ELSE IF org_file = "org" THEN Ok(STR_acme)
    ELSE Ok(IF env_org.set THEN env_org.value ELSE STR_defaultOrgName)

\* ------------------------------------------------------------- initial state
NoLocals ==
    [repo |-> <<>>, repo_owner |-> "", last_commit_info |-> <<>>, open_issues_count |-> 0,
     last_release |-> <<>>, contributors_count |-> 0, all_commits |-> <<>>, ci |-> 0,
     weekly_commits |-> 0, monthly_commits |-> 0,
     scan_config |-> [snyk |-> PENDING, rl |-> PENDING, semgrep |-> PENDING]]

NoObs == [site |-> "", text |-> <<>>, history |-> "", scan |-> ""]

Init ==
    /\ pc = "main"
    /\ token \in Tokens
    /\ \/ \E w \in Worlds : config_doc = ConfigDoc("repos", w.names) /\ hosted = w.hosted
       \/ config_doc \in MalformedDocs /\ hosted = Catalogue
    /\ g = FALSE
    /\ org_name = <<>>
    /\ repo_names = <<>>
    /\ metrics = <<>>
    /\ returned = <<>>
    /\ i = 0
    /\ loc = NoLocals
    /\ report = <<>>
    /\ events = <<>>
    /\ api = [org |-> 0, repo |-> 0]
    /\ sleeps = <<>>
    /\ obs = NoObs

\* ------------------------------------------------------------------- main
collectVars == <<metrics, returned, i, loc, report, api, sleeps, obs>>
inputVars == <<token, config_doc, hosted>>

\* variant: tests `token is None` only, so an empty token passes
TokenMissing_NoneOnly(t) == t = NONE

\* `if not token`
TokenMissing(t) == t = NONE \/ t = ""

\* lines 328-331
MainCheckToken ==
    /\ pc = "main"
    /\ IF TokenMissing(token)
       THEN pc' = "done" /\ events' = Append(events, "msg_no_token")
       ELSE pc' = "client" /\ events' = Append(events, "token")
    /\ UNCHANGED <<inputVars, g, org_name, repo_names, collectVars>>

\* line 334
MainCreateClient ==
    /\ pc = "client"
    /\ g' = TRUE
    /\ pc' = "org_name"
    /\ events' = Append(events, "client")
    /\ UNCHANGED <<inputVars, org_name, repo_names, collectVars>>

\* lines 341-346
MainResolveOrgName ==
    /\ pc = "org_name"
    /\ \E args_org \in {<<>>, STR_acme}, repo_path \in {<<>>, STR_acmeRepo},
          org_file \in OrgFiles, env_org \in EnvOrgs :
          LET r == IF Truthy(args_org) THEN Ok(args_org)
                   ELSE get_org_name_from_env(repo_path, org_file, env_org)
          IN IF r.raised # ""
             THEN pc' = "raised" /\ org_name' = org_name
                  /\ events' = Append(events, r.raised)
             ELSE /\ org_name' = r.value
                  /\ IF ~Truthy(r.value)
                     THEN pc' = "done" /\ events' = Append(events, "msg_no_org")
                     ELSE pc' = "load" /\ events' = Append(events, "org_name")
    /\ UNCHANGED <<inputVars, g, repo_names, collectVars>>

\* lines 349-354
MainLoadRepoList ==
    /\ pc = "load"
    /\ LET r == load_repo_list(config_doc)
       IN IF r.raised # ""
          THEN pc' = "raised" /\ repo_names' = repo_names
               /\ events' = Append(events, r.raised)
          ELSE IF Falsy(r.value)
          THEN pc' = "done" /\ repo_names' = <<>>
               /\ events' = Append(events, "msg_no_repos")
          ELSE pc' = "collect" /\ repo_names' = r.value.list
               /\ events' = Append(events, "repo_list")
    /\ UNCHANGED <<inputVars, g, org_name, collectVars>>


\* ------------------------------------------------------ Metrics Collector
\* variant: the organization's failure text is left out of the record
OrgErrorRecord_NoText(repo_name, e) ==
    [Repository |-> repo_name, Owner |-> "Error", LastCommit |-> STR_OrgError,
     OpenIssues |-> PyStr("Error"), LastRelease |-> STR_Error,
     CommitsWeek |-> PyInt(0), CommitsMonth |-> PyInt(0), Contributors |-> PyStr("Error"),
     SnykScans |-> PENDING, RLScans |-> PENDING, SemgrepScans |-> PENDING]

\* lines 59-69
OrgErrorRecord(repo_name, e) ==
    [Repository |-> repo_name, Owner |-> "Error", LastCommit |-> STR_OrgError \o e,
     OpenIssues |-> PyStr("Error"), LastRelease |-> STR_Error,
     CommitsWeek |-> PyInt(0), CommitsMonth |-> PyInt(0), Contributors |-> PyStr("Error"),
     SnykScans |-> PENDING, RLScans |-> PENDING, SemgrepScans |-> PENDING]

\* variant: the open-issue sentinel is the number 0 instead of 'Error'
ErrorRecord_ZeroIssues(repo_name, e) ==
    [Repository |-> repo_name, Owner |-> "Error", LastCommit |-> STR_ErrorColon \o e,
     OpenIssues |-> PyInt(0), LastRelease |-> STR_Error,
     CommitsWeek |-> PyInt(0), CommitsMonth |-> PyInt(0), Contributors |-> PyStr("Error"),
     SnykScans |-> PENDING, RLScans |-> PENDING, SemgrepScans |-> PENDING]

\* lines 232-244
ErrorRecord(repo_name, e) ==
    [Repository |-> repo_name, Owner |-> "Error", LastCommit |-> STR_ErrorColon \o e,
     OpenIssues |-> PyStr("Error"), LastRelease |-> STR_Error,
     CommitsWeek |-> PyInt(0), CommitsMonth |-> PyInt(0), Contributors |-> PyStr("Error"),
     SnykScans |-> PENDING, RLScans |-> PENDING, SemgrepScans |-> PENDING]

\* lines 213-225
RepoRecord(repo_name, l) ==
    [Repository |-> repo_name, Owner |-> l.repo_owner, LastCommit |-> l.last_commit_info,
     OpenIssues |-> PyInt(l.open_issues_count), LastRelease |-> l.last_release,
     CommitsWeek |-> PyInt(l.weekly_commits), CommitsMonth |-> PyInt(l.monthly_commits),
     Contributors |-> PyInt(l.contributors_count),
     SnykScans |-> l.scan_config.snyk, RLScans |-> l.scan_config.rl,
     SemgrepScans |-> l.scan_config.semgrep]

\* the repository the for loop is at
repo_name == repo_names[i]

\* lines 53-69: get_organization; its failure answers for the whole batch
CollectGetOrganization ==
    /\ pc = "collect"
    /\ api' = [api EXCEPT !.org = @ + 1]
    /\ \/ /\ pc' = "c_loop"
          /\ events' = Append(events, "collect")
          /\ UNCHANGED <<returned, obs>>
       \/ \E e \in ErrTexts :
             /\ returned' = [k \in 1..Len(repo_names) |-> OrgErrorRecord(repo_names[k], e)]
             /\ obs' = [obs EXCEPT !.site = "org", !.text = e]
             /\ events' = events \o <<"collect", "collected">>
             /\ pc' = "report"
    /\ UNCHANGED <<inputVars, g, org_name, repo_names, metrics, i, loc, report, sleeps>>

\* variant: the handler logs the failure and appends no record
RepoFailed_NoRecord(name, site, e) ==
    /\ UNCHANGED <<metrics, sleeps>>
    /\ obs' = [site |-> site, text |-> e, history |-> "", scan |-> ""]
    /\ pc' = "c_loop"

\* lines 230-244: the handler of the repository's try block
RepoFailed(name, site, e) ==
    /\ metrics' = Append(metrics, ErrorRecord(name, e))
    /\ sleeps' = Append(sleeps, 0)
    /\ obs' = [site |-> site, text |-> e, history |-> "", scan |-> ""]
    /\ pc' = "c_loop"

mainVars == <<inputVars, g, org_name, repo_names, returned, report, events>>

\* lines 76-81: the next name; org.get_repo.  The previous iteration's locals are
\* dead here (each is assigned before it is read), so they restart blank.
RepoResolve ==
    /\ pc = "c_loop"
    /\ i < Len(repo_names)
    /\ i' = i + 1
    /\ api' = [api EXCEPT !.repo = @ + 1]
    /\ \/ \E e \in ErrTexts :
             /\ loc' = NoLocals
             /\ RepoFailed(repo_names[i'], "get_repo", e)
       \/ /\ loc' = [NoLocals EXCEPT !.repo = hosted[repo_names[i']]]
          /\ obs' = NoObs
          /\ pc' = "r_owner"
          /\ UNCHANGED <<metrics, sleeps>>
    /\ UNCHANGED mainVars

\* line 84
RepoOwner ==
    /\ pc = "r_owner"
    /\ \/ /\ loc' = [loc EXCEPT !.repo_owner = "octo"]
          /\ pc' = "r_commit"
          /\ UNCHANGED <<metrics, sleeps, obs>>
       \/ \E e \in ErrTexts : RepoFailed(repo_name, "owner", e) /\ UNCHANGED loc
    /\ UNCHANGED <<mainVars, i, api>>

\* lines 89-92: list(repo.get_commits(per_page=1)), or on TypeError list(repo.get_commits())[:1]
LatestCommits(history, fallback) ==
    IF fallback THEN SubSeq(history, 1, Min(1, Len(history))) ELSE history

\* variant: no placeholder for an empty commit list
LastCommitInfo_NoPlaceholder(commits) ==
    IF commits # <<>>
    THEN FormatDateTime(commits[1].day) \o STR_By \o STR_author
    ELSE <<>>

\* lines 94-103
LastCommitInfo(commits) ==
    IF commits # <<>>
    THEN FormatDateTime(commits[1].day) \o STR_By \o STR_author
    ELSE STR_NoCommits

\* lines 86-103
RepoLastCommit ==
    /\ pc = "r_commit"
    /\ \/ \E fallback \in BOOLEAN :
             /\ loc' = [loc EXCEPT !.last_commit_info =
                                       LastCommitInfo(LatestCommits(loc.repo, fallback))]
             /\ pc' = "r_issues"
             /\ UNCHANGED <<metrics, sleeps, obs>>
       \/ \E e \in ErrTexts : RepoFailed(repo_name, "commits", e) /\ UNCHANGED loc
    /\ UNCHANGED <<mainVars, i, api>>

\* line 106
RepoOpenIssues ==
    /\ pc = "r_issues"
    /\ \/ \E n \in OpenIssueCounts :
             /\ loc' = [loc EXCEPT !.open_issues_count = n]
             /\ pc' = "r_release"
             /\ UNCHANGED <<metrics, sleeps, obs>>
       \/ \E e \in ErrTexts : RepoFailed(repo_name, "issues", e) /\ UNCHANGED loc
    /\ UNCHANGED <<mainVars, i, api>>

\* lines 109-116
RepoLastRelease ==
    /\ pc = "r_release"
    /\ \/ /\ loc' = [loc EXCEPT !.last_release = STR_NoReleases]
          /\ pc' = "r_contributors"
          /\ UNCHANGED <<metrics, sleeps, obs>>
       \/ \E a \in ReleaseAges :
             /\ loc' = [loc EXCEPT !.last_release = FormatDateTime(Today - a)]
             /\ pc' = "r_contributors"
             /\ UNCHANGED <<metrics, sleeps, obs>>
       \/ \E e \in ErrTexts : RepoFailed(repo_name, "releases", e) /\ UNCHANGED loc
    /\ UNCHANGED <<mainVars, i, api>>

\* lines 119-120
RepoContributors ==
    /\ pc = "r_contributors"
    /\ \/ \E n \in ContributorCounts :
             /\ loc' = [loc EXCEPT !.contributors_count = n]
             /\ pc' = "r_history"
             /\ UNCHANGED <<metrics, sleeps, obs>>
       \/ \E e \in ErrTexts : RepoFailed(repo_name, "contributors", e) /\ UNCHANGED loc
    /\ UNCHANGED <<mainVars, i, api>>

\* lines 137-153: all_commits stays [] when get_commits raises; when only the
\* debug print of the first commit raises, the list is already bound
RepoFetchAllCommits ==
    /\ pc = "r_history"
    /\ \/ /\ loc' = [loc EXCEPT !.all_commits = loc.repo, !.ci = 0,
                                !.weekly_commits = 0, !.monthly_commits = 0]
          /\ obs' = [obs EXCEPT !.history = "fetched"]
       \/ /\ loc' = [loc EXCEPT !.all_commits = <<>>, !.ci = 0,
                                !.weekly_commits = 0, !.monthly_commits = 0]
          /\ obs' = [obs EXCEPT !.history = "failed"]
    /\ pc' = "r_count"
    /\ UNCHANGED <<mainVars, i, api, metrics, sleeps>>

\* lines 161-162: a naive timestamp is taken as UTC
AssumeUTC(commit_date) ==
    IF commit_date.aware THEN commit_date ELSE [commit_date EXCEPT !.aware = TRUE]

\* variant: the two thresholds are swapped
Classify_Swapped(commit, weekly, monthly, now) ==
    LET commit_date == AssumeUTC(commit)
        week_ago == now - WeekDays
        month_ago == now - MonthDays
    IN IF commit_date.day >= week_ago
       THEN [weekly |-> IF commit_date.day >= month_ago THEN weekly + 1 ELSE weekly,
             monthly |-> monthly + 1]
       ELSE [weekly |-> IF commit_date.day >= month_ago THEN weekly + 1 ELSE weekly,
             monthly |-> monthly]

\* lines 157-169: one commit against the two windows
Classify(commit, weekly, monthly, now) ==
    LET commit_date == AssumeUTC(commit)
        week_ago == now - WeekDays
        month_ago == now - MonthDays
    IN IF commit_date.day >= month_ago
       THEN [weekly |-> IF commit_date.day >= week_ago THEN weekly + 1 ELSE weekly,
             monthly |-> monthly + 1]
       ELSE [weekly |-> weekly, monthly |-> monthly]

\* lines 155-171: one iteration of the counting loop; a commit whose date cannot
\* be read is skipped
RepoClassifyCommit ==
    /\ pc = "r_count"
    /\ loc.ci < Len(loc.all_commits)
    /\ \/ LET c == Classify(loc.all_commits[loc.ci + 1], loc.weekly_commits,
                            loc.monthly_commits, Today)
          IN loc' = [loc EXCEPT !.ci = @ + 1, !.weekly_commits = c.weekly,
                                !.monthly_commits = c.monthly]
       \/ loc' = [loc EXCEPT !.ci = @ + 1]
    /\ UNCHANGED <<mainVars, pc, i, api, metrics, sleeps, obs>>

\* the scan-configuration documents a repository may hold
ScanKeys == <<"snyk", "rl", "semgrep">>
ScanMaps == {[snyk |-> TRUE, rl |-> TRUE, semgrep |-> TRUE], [snyk |-> TRUE, rl |-> FALSE],
             [semgrep |-> TRUE]}
ScanValues ==
    {[kind |-> "null", d |-> PyNone], [kind |-> "list", d |-> PyNone]}
    \cup {[kind |-> "dict", d |-> m] : m \in ScanMaps}
ScanInput(kind, scans) == [kind |-> kind, scans |-> scans]
ScanInputs ==
    {ScanInput(k, PyNone) : k \in {"absent", "unparsable", "none", "text", "no_scans_key"}}
    \cup {ScanInput("scans", v) : v \in ScanValues}

\* scans.get(key, False)
ScansGet(scans, key) ==
    IF scans.kind = "dict"
    THEN Ok(IF key \in DOMAIN scans.d THEN scans.d[key] ELSE FALSE)
    ELSE Raise("AttributeError")

\* lines 201-203: the three assignments in order, up to the first that raises
RECURSIVE SetFlags(_, _, _)
SetFlags(keys, scans, cfg) ==
    IF keys = <<>> THEN cfg
    ELSE LET r == ScansGet(scans, Head(keys))
         IN IF r.raised # "" THEN cfg
            ELSE SetFlags(Tail(keys), scans,
                          [cfg EXCEPT ![Head(keys)] = IF r.value THEN "Enabled" ELSE "Disabled"])

\* variant: scan_yaml.get('scans', {}) instead of the `'scans' in scan_yaml` test
ScanConfig_DefaultScans(input, default) ==
    CASE input.kind \in {"absent", "unparsable"} -> default
      [] input.kind = "none" -> default
      [] input.kind = "text" -> default
      [] input.kind = "no_scans_key" ->
             SetFlags(ScanKeys, [kind |-> "dict", d |-> [none |-> TRUE]], default)
      [] OTHER -> SetFlags(ScanKeys, input.scans, default)

\* lines 189-211
ScanConfig(input, default) ==
    CASE input.kind \in {"absent", "unparsable"} -> default    \* get_contents / safe_load raised
      [] input.kind = "none" -> default                        \* `if scan_yaml` is false
      [] input.kind = "text" -> default                        \* scan_yaml['scans'] on a str raises
      [] input.kind = "no_scans_key" -> default
      [] OTHER -> SetFlags(ScanKeys, input.scans, default)

\* lines 182-211
RepoScanConfig ==
    /\ pc = "r_count"
    /\ loc.ci = Len(loc.all_commits)
    /\ \E input \in ScanInputs :
          /\ loc' = [loc EXCEPT !.scan_config = ScanConfig(input, NoLocals.scan_config)]
          /\ obs' = [obs EXCEPT !.scan =
                         IF input.kind = "scans" THEN input.scans.kind ELSE input.kind]
    /\ pc' = "r_append"
    /\ UNCHANGED <<mainVars, i, api, metrics, sleeps>>

\* lines 213-225
RepoAppend ==
    /\ pc = "r_append"
    /\ metrics' = Append(metrics, RepoRecord(repo_name, loc))
    /\ sleeps' = Append(sleeps, 0)
    /\ pc' = "r_sleep"
    /\ UNCHANGED <<mainVars, i, api, loc, obs>>

\* line 228
RepoSleep ==
    /\ pc = "r_sleep"
    /\ sleeps' = [sleeps EXCEPT ![Len(sleeps)] = @ + SleepSeconds]
    /\ pc' = "c_loop"
    /\ UNCHANGED <<mainVars, i, api, loc, metrics, obs>>

\* line 246
CollectReturn ==
    /\ pc = "c_loop"
    /\ i = Len(repo_names)
    /\ returned' = metrics
    /\ events' = Append(events, "collected")
    /\ pc' = "report"
    /\ UNCHANGED <<inputVars, g, org_name, repo_names, metrics, i, loc, report, api, sleeps, obs>>

\* ------------------------------------------------------- Report Generator
RECURSIVE SumSeq(_)
SumSeq(ns) == IF ns = <<>> THEN 0 ELSE Head(ns) + SumSeq(Tail(ns))

\* lines 253-257
Normalised(ms) ==
    [k \in 1..Len(ms) |->
        [ms[k] EXCEPT !.CommitsWeek = IF IsInt(@) THEN @ ELSE PyInt(0),
                      !.CommitsMonth = IF IsInt(@) THEN @ ELSE PyInt(0)]]

\* lines 286-288: the test of one record against one_week_ago
ActiveRepo(m, one_week_ago) ==
    /\ ~StartsWith(m.LastCommit, STR_Error)
    /\ StrGE(SplitFirst(m.LastCommit, STR_By), one_week_ago)

\* lines 282-312
generate_report(ms, today) ==
    LET one_week_ago == FormatDate(today - WeekDays)
        Active(m) == ActiveRepo(m, one_week_ago)
        Week(m) == IF IsInt(m.CommitsWeek) THEN m.CommitsWeek.int ELSE 0
        Month(m) == IF IsInt(m.CommitsMonth) THEN m.CommitsMonth.int ELSE 0
        Snyk(m) == m.SnykScans = "Enabled"
        RL(m) == m.RLScans = "Enabled"
        Semgrep(m) == m.SemgrepScans = "Enabled"
        Pending(m) == m.SnykScans = PENDING \/ m.RLScans = PENDING \/ m.SemgrepScans = PENDING
        idx == 1..Len(ms)
    IN << [total |-> Len(ms),
           active_repos |-> Cardinality({k \in idx : Active(ms[k])}),
           total_weekly_commits |-> SumSeq([k \in idx |-> Week(ms[k])]),
           total_monthly_commits |-> SumSeq([k \in idx |-> Month(ms[k])]),
           snyk_enabled |-> Cardinality({k \in idx : Snyk(ms[k])}),
           rl_enabled |-> Cardinality({k \in idx : RL(ms[k])}),
           semgrep_enabled |-> Cardinality({k \in idx : Semgrep(ms[k])}),
           pending_scans |-> Cardinality({k \in idx : Pending(ms[k])})] >>

\* lines 360-362
MainGenerateReport ==
    /\ pc = "report"
    /\ returned' = Normalised(returned)
    /\ report' = generate_report(Normalised(returned), Today)
    /\ events' = Append(events, "report")
    /\ pc' = "done"
    /\ UNCHANGED <<inputVars, g, org_name, repo_names, metrics, i, loc, api, sleeps, obs>>

Next ==
    \/ MainCheckToken
    \/ MainCreateClient
    \/ MainResolveOrgName
    \/ MainLoadRepoList
    \/ CollectGetOrganization
    \/ RepoResolve
    \/ RepoOwner
    \/ RepoLastCommit
    \/ RepoOpenIssues
    \/ RepoLastRelease
    \/ RepoContributors
    \/ RepoFetchAllCommits
    \/ RepoClassifyCommit
    \/ RepoScanConfig
    \/ RepoAppend
    \/ RepoSleep
    \/ CollectReturn
    \/ MainGenerateReport

Spec == Init /\ [][Next]_vars

\* =================================================================== claims
Has(ev) == \E k \in 1..Len(events) : events[k] = ev
Last(ms) == ms[Len(ms)]
IsErrorRecord(m, text) ==
    /\ m.Owner = "Error"
    /\ m.LastCommit = STR_ErrorColon \o text
    /\ m.OpenIssues = PyStr("Error")
    /\ m.LastRelease = STR_Error
    /\ m.CommitsWeek = PyInt(0)
    /\ m.CommitsMonth = PyInt(0)
    /\ m.Contributors = PyStr("Error")
    /\ m.SnykScans = PENDING /\ m.RLScans = PENDING /\ m.SemgrepScans = PENDING
\* the record of the current repository was appended by the success path
JustAppended == pc = "r_sleep" /\ Len(metrics) = i

\* C1: once collect_metrics has returned, the list holds exactly one record per
\* input name, in the input order: equal lengths, and the k-th record's
\* Repository is the k-th name, whatever succeeded or failed.
C1_OneRecordPerName ==
    Has("collected") =>
        /\ Len(returned) = Len(repo_names)
        /\ \A k \in 1..Len(repo_names) : returned[k].Repository = repo_names[k]

C1_Witness ==
    /\ Has("collected")
    /\ obs.site # "org"
    /\ repo_names = <<"beta", "alpha">>
    /\ returned[1].Owner = "Error"
    /\ returned[2].Owner = "octo"

\* C2: when get_organization fails, every returned record carries the same
\* failure text in its last-commit field, Open Issues and Contributors are the
\* 'Error' sentinel, both commit counts are 0, and no get_repo call was issued.
C2_OrgFailure ==
    obs.site = "org" =>
        /\ api.repo = 0
        /\ Len(returned) = Len(repo_names)
        /\ \A k \in 1..Len(returned) :
              /\ Contains(returned[k].LastCommit, obs.text)
              /\ returned[k].LastCommit = returned[1].LastCommit
              /\ returned[k].OpenIssues = PyStr("Error")
              /\ returned[k].Contributors = PyStr("Error")
              /\ returned[k].CommitsWeek = PyInt(0)
              /\ returned[k].CommitsMonth = PyInt(0)

C2_Witness ==
    /\ obs.site = "org"
    /\ obs.text = STR_503
    /\ Len(returned) = MaxRepos
    /\ pc = "done"

\* C3: the weekly count never exceeds the monthly count and both are
\* non-negative integers: in the counters after every prefix of the counting
\* loop, and in every record built or returned.
CountsNested(m) ==
    /\ IsInt(m.CommitsWeek) /\ IsInt(m.CommitsMonth)
    /\ 0 <= m.CommitsWeek.int /\ m.CommitsWeek.int <= m.CommitsMonth.int
C3_WeeklyWithinMonthly ==
    /\ 0 <= loc.weekly_commits /\ loc.weekly_commits <= loc.monthly_commits
    /\ \A k \in 1..Len(metrics) : CountsNested(metrics[k])
    /\ \A k \in 1..Len(returned) : CountsNested(returned[k])

C3_Witness ==
    /\ pc = "r_count"
    /\ loc.ci = 2
    /\ loc.all_commits = <<Commit(MonthDays, FALSE), Commit(WeekDays, TRUE)>>
    /\ loc.weekly_commits = 1
    /\ loc.monthly_commits = 2

\* C4: the summary's 'Repositories with commits in the last week' is the number
\* of records whose last-commit value starts with a YYYY-MM-DD date on or after
\* today minus 7 days; error records, organization-error records and
\* 'No commits' records are not counted.
IsDigit(c) == 48 <= c /\ c <= 57
IsDateText(s) ==
    /\ Len(s) >= 10
    /\ \A j \in {1, 2, 3, 4, 6, 7, 9, 10} : IsDigit(s[j])
    /\ s[5] = 45 /\ s[8] = 45
DateKey(s) ==
    LET v(j) == s[j] - 48
    IN ((v(1) * 1000 + v(2) * 100 + v(3) * 10 + v(4)) * 100 + v(6) * 10 + v(7)) * 100
       + v(9) * 10 + v(10)
CommittedInLastWeek(m) ==
    /\ IsDateText(m.LastCommit)
    /\ DateKey(m.LastCommit) >= DateKey(FormatDate(Today - WeekDays))
C4_ActiveRepos ==
    report # <<>> => report[1].active_repos =
                         Cardinality({k \in 1..Len(returned) : CommittedInLastWeek(returned[k])})

\* C5 as claimed: a failed fetch of the latest commit, the open-issue count, the
\* releases or the contributors leaves the fields fetched before it in the
\* record; only a failed get_repo gives a whole error record.
C5_ScopedToField ==
    (pc = "c_loop" /\ obs.site \in {"commits", "issues", "releases", "contributors"}) =>
        /\ Last(metrics).Owner = loc.repo_owner
        /\ obs.site # "commits" => Last(metrics).LastCommit = loc.last_commit_info

\* C5 as amended: a failed fetch of the full commit history leaves only the two
\* commit counts at 0 and an absent or unusable scan config leaves only the three
\* scan flags at 'Pending Implementation', every other field keeping the value
\* fetched; a failure of get_repo, the owner, the latest commit, the open-issue
\* count, the releases or the contributors makes the whole record an error
\* record carrying the exception's text.
C5_FailureScopes ==
    /\ (pc = "c_loop" /\ obs.site \notin {"", "org"}) =>
          /\ IsErrorRecord(Last(metrics), obs.text)
          /\ Last(metrics).Repository = repo_name
    /\ JustAppended =>
          LET m == Last(metrics)
          IN /\ obs.site = ""
             /\ m.Owner = "octo"
             /\ m.LastCommit = loc.last_commit_info
             /\ m.LastCommit = LastCommitInfo(hosted[repo_name])
             /\ m.OpenIssues \in {PyInt(n) : n \in OpenIssueCounts}
             /\ m.OpenIssues = PyInt(loc.open_issues_count)
             /\ m.LastRelease = loc.last_release
             /\ m.LastRelease # STR_Error
             /\ m.Contributors \in {PyInt(n) : n \in ContributorCounts}
             /\ m.Contributors = PyInt(loc.contributors_count)
             /\ obs.history = "failed" => m.CommitsWeek = PyInt(0) /\ m.CommitsMonth = PyInt(0)
             /\ obs.history = "fetched" =>
                   /\ m.CommitsWeek = PyInt(loc.weekly_commits)
                   /\ m.CommitsMonth = PyInt(loc.monthly_commits)
             /\ obs.scan # "dict" =>
                   m.SnykScans = PENDING /\ m.RLScans = PENDING /\ m.SemgrepScans = PENDING
             /\ obs.scan = "dict" =>
                   {m.SnykScans, m.RLScans, m.SemgrepScans} \subseteq {"Enabled", "Disabled"}

C5_Witness ==
    /\ pc = "c_loop"
    /\ obs.site = "contributors"
    /\ loc.repo_owner = "octo"
    /\ loc.open_issues_count \in OpenIssueCounts
    /\ Last(metrics).Owner = "Error"
    /\ Last(metrics).OpenIssues = PyStr("Error")

\* C6: when config/repos.yaml is absent, empty or without a usable 'repos'
\* entry, load_repo_list returns an empty list and main prints its message and
\* returns: nothing is raised, no API call is made, no report is written.
C6_EmptyListIsFatal ==
    (config_doc \in MalformedDocs /\ Has("org_name") /\ pc # "load") =>
        /\ pc = "done"
        /\ Last(events) = "msg_no_repos"
        /\ repo_names = <<>>
        /\ api = [org |-> 0, repo |-> 0]
        /\ report = <<>>

\* C7: whatever the scan-configuration fetch gives other than a 'scans' mapping
\* (no file, unreadable, empty, no 'scans' key, 'scans' not a mapping), the
\* repository's record has all three flags 'Pending Implementation', is no error
\* record and keeps its owner, last commit, open issues, last release, commit
\* counts and contributors; in every record the three flags are either all
\* pending or all Enabled/Disabled.
AllPending(m) == m.SnykScans = PENDING /\ m.RLScans = PENDING /\ m.SemgrepScans = PENDING
C7_ScanConfigNeverFatal ==
    /\ \A k \in 1..Len(metrics) :
          \/ AllPending(metrics[k])
          \/ {metrics[k].SnykScans, metrics[k].RLScans, metrics[k].SemgrepScans}
                 \subseteq {"Enabled", "Disabled"}
    /\ (obs.scan # "" /\ pc # "report" /\ pc # "done") => pc \in {"r_append", "r_sleep", "c_loop"} /\ obs.site = ""
    /\ (JustAppended /\ obs.scan # "dict") =>
          LET m == Last(metrics)
          IN /\ AllPending(m)
             /\ m.Owner = "octo"
             /\ m.LastCommit = LastCommitInfo(hosted[repo_name])
             /\ m.OpenIssues = PyInt(loc.open_issues_count)
             /\ m.LastRelease = loc.last_release
             /\ m.CommitsWeek = PyInt(loc.weekly_commits)
             /\ m.CommitsMonth = PyInt(loc.monthly_commits)
             /\ m.Contributors = PyInt(loc.contributors_count)

C7_Witness ==
    /\ JustAppended
    /\ obs.scan = "list"
    /\ AllPending(Last(metrics))
    /\ Last(metrics).CommitsMonth = PyInt(2)

\* C8: a repository that resolves and has no commits gets the 'No commits'
\* last-commit value and weekly and monthly counts of 0.
C8_NoCommits ==
    (JustAppended /\ hosted[repo_name] = <<>>) =>
        /\ Last(metrics).LastCommit = STR_NoCommits
        /\ Last(metrics).CommitsWeek = PyInt(0)
        /\ Last(metrics).CommitsMonth = PyInt(0)

C8_Witness ==
    /\ JustAppended
    /\ hosted[repo_name] = <<>>
    /\ obs.history = "fetched"
    /\ Last(metrics).Owner = "octo"

\* C9: with GITHUB_TOKEN unset or empty, main only prints its message and
\* returns: no client, no organization name, no repository list, no API call,
\* no collect_metrics, no report.  Whenever generate_report starts or has
\* written, the token check, the client, the organization name, the repository
\* list and collect_metrics completed before it, in that order.
C9_TokenGateAndOrder ==
    /\ token \in {NONE, ""} =>
          /\ g = FALSE /\ org_name = <<>> /\ repo_names = <<>>
          /\ api = [org |-> 0, repo |-> 0]
          /\ returned = <<>> /\ report = <<>>
          /\ pc \in {"main", "done"}
          /\ pc = "done" => events = <<"msg_no_token">>
    /\ pc = "report" =>
          events = <<"token", "client", "org_name", "repo_list", "collect", "collected">>
    /\ report # <<>> =>
          events = <<"token", "client", "org_name", "repo_list", "collect", "collected", "report">>

C9_Witness == token = "" /\ pc = "done" /\ events = <<"msg_no_token">>

\* C10: before get_repo is called for a repository, exactly one sleep of the
\* fixed interval has followed the previous repository's record, whether that
\* record is a success record or an error record.
C10_SleepBetweenRepos ==
    \A k \in 1..Len(sleeps) : api.repo > k => sleeps[k] = SleepSeconds

====
